---- MODULE Spec2Model ----
(***************************************************************************)
(* A model of plotclip.py: CRS resolution, plot-name detection, the plot   *)
(* catalog loader, the spatial matcher, the overlap filter, the container  *)
(* metadata merger and the perform_process driver.                         *)
(*                                                                         *)
(* Python strings whose characters the code inspects (CRS names, property  *)
(* keys) are sequences of one-character strings.  Python dicts are         *)
(* sequences of [k, v] records in insertion order.                         *)
(***************************************************************************)
EXTENDS Integers, Sequences, FiniteSets, TLC

VARIABLES
    crs,                \* get_sr_from_crs: the GeoJSON crs clause passed in
    crs_result,         \* get_sr_from_crs: what the call produced
    kn_properties,      \* get_plot_key_name: the properties passed in
    kn_default_key,     \* get_plot_key_name: the default_key passed in
    kn_result,          \* get_plot_key_name: what the call returned
    geojson,            \* load_plot_file: the parsed plot file
    plot_column,        \* load_plot_file: the plot_column argument
    load_status,        \* load_plot_file: where the call is, or the exception that ended it
    file_sr,            \* load_plot_file: the file-level spatial reference
    feature_idx,        \* load_plot_file: features visited so far
    plot_key,           \* load_plot_file: the key carried from feature to feature
    plots,              \* load_plot_file: the dict being built
    named,              \* load_plot_file: the "Plot name" debug log, one line per stored feature
    mt_bounding_box,    \* find_plots_intersect_boundingbox: the bounding_box argument
    mt_all_plots,       \* find_plots_intersect_boundingbox: the all_plots argument
    mt_status,          \* find_plots_intersect_boundingbox: "called" once it has returned
    mt_result,          \* find_plots_intersect_boundingbox: the dict returned
    dest_md,            \* merge_container_md: the caller's metadata list
    new_md,             \* merge_container_md: the entry last merged
    merge_op,           \* merge_container_md: "first" or "again" for the last merge
    file_list,          \* perform_process: check_md['list_files']()
    disk,               \* perform_process: the input paths that exist
    plot_file,          \* perform_process: the catalog the plot file holds
    pc,                 \* perform_process: where the call is
    files_to_process,   \* perform_process: local
    all_plots,          \* perform_process: local
    file_pos,           \* perform_process: files of files_to_process taken by the outer loop
    overlap_plots,      \* perform_process: local, for the current file
    plot_pos,           \* perform_process: plots of overlap_plots taken by the inner loop
    container_md,       \* perform_process: local
    processed_files,    \* perform_process: local
    processed_plots,    \* perform_process: local
    clip_calls,         \* perform_process: the clip requests sent to geoimage / lasfile
    result              \* perform_process: the dict returned

crs_vars == <<crs, crs_result>>
kn_vars == <<kn_properties, kn_default_key, kn_result>>
load_vars == <<geojson, plot_column, load_status, file_sr, feature_idx, plot_key, plots, named>>

match_vars == <<mt_bounding_box, mt_all_plots, mt_status, mt_result>>
merge_vars == <<dest_md, new_md, merge_op>>

run_inputs == <<file_list, disk, plot_file>>
run_vars == <<run_inputs, pc, files_to_process, all_plots, file_pos, overlap_plots, plot_pos,
              container_md, processed_files, processed_plots, clip_calls, result>>

vars == <<crs_vars, kn_vars, load_vars, match_vars, merge_vars, run_vars>>

-----------------------------------------------------------------------------
(* Python string primitives.                                               *)

Colon == ":"

\* s[n:]
SliceFrom(s, n) == SubSeq(s, n + 1, Len(s))

\* s.startswith(p)
StartsWith(s, p) == Len(s) >= Len(p) /\ SubSeq(s, 1, Len(p)) = p

\* s.endswith(p)
EndsWith(s, p) == Len(s) >= Len(p) /\ SubSeq(s, Len(s) - Len(p) + 1, Len(s)) = p

\* s.find(sub) >= 0
Contains(s, sub) ==
    \E i \in 1..(Len(s) - Len(sub) + 1) : SubSeq(s, i, i + Len(sub) - 1) = sub

LowerChar(c) ==
    CASE c = "A" -> "a" [] c = "B" -> "b" [] c = "C" -> "c" [] c = "D" -> "d"
      [] c = "E" -> "e" [] c = "F" -> "f" [] c = "G" -> "g" [] c = "H" -> "h"
      [] c = "I" -> "i" [] c = "J" -> "j" [] c = "K" -> "k" [] c = "L" -> "l"
      [] c = "M" -> "m" [] c = "N" -> "n" [] c = "O" -> "o" [] c = "P" -> "p"
      [] c = "Q" -> "q" [] c = "R" -> "r" [] c = "S" -> "s" [] c = "T" -> "t"
      [] c = "U" -> "u" [] c = "V" -> "v" [] c = "W" -> "w" [] c = "X" -> "x"
      [] c = "Y" -> "y" [] c = "Z" -> "z" [] OTHER -> c

\* s.lower()
Lower(s) == [i \in 1..Len(s) |-> LowerChar(s[i])]

\* index of the first ':' of s, 0 when there is none
FirstColon(s) ==
    IF \E i \in 1..Len(s) : s[i] = Colon
    THEN CHOOSE i \in 1..Len(s) : s[i] = Colon /\ \A j \in 1..(i - 1) : s[j] # Colon
    ELSE 0

\* s.split(':', 1): a list of one or two strings
SplitOnce(s) ==
    IF FirstColon(s) = 0 THEN <<s>>
    ELSE <<SubSeq(s, 1, FirstColon(s) - 1), SubSeq(s, FirstColon(s) + 1, Len(s))>>

\* s.strip(':')
StripColons(s) ==
    IF \A i \in 1..Len(s) : s[i] = Colon THEN <<>>
    ELSE LET lo == CHOOSE i \in 1..Len(s) :
                       s[i] # Colon /\ \A j \in 1..(i - 1) : s[j] = Colon
             hi == CHOOSE i \in 1..Len(s) :
                       s[i] # Colon /\ \A j \in (i + 1)..Len(s) : s[j] = Colon
         IN SubSeq(s, lo, hi)

Digits == {"0", "1", "2", "3", "4", "5", "6", "7", "8", "9"}

DigitVal(c) ==
    CASE c = "0" -> 0 [] c = "1" -> 1 [] c = "2" -> 2 [] c = "3" -> 3
      [] c = "4" -> 4 [] c = "5" -> 5 [] c = "6" -> 6 [] c = "7" -> 7
      [] c = "8" -> 8 [] c = "9" -> 9

RECURSIVE DecimalValue(_)
DecimalValue(s) ==
    IF s = <<>> THEN 0
    ELSE 10 * DecimalValue(SubSeq(s, 1, Len(s) - 1)) + DigitVal(s[Len(s)])

\* int(s) accepts a non-empty run of decimal digits; anything else over the
\* alphabet used here (letters, '.', ':') raises ValueError.
IntParses(s) == s # <<>> /\ \A i \in 1..Len(s) : s[i] \in Digits

-----------------------------------------------------------------------------
(* get_sr_from_crs                                                         *)

ogc_crs_prefix ==
    <<"u", "r", "n", ":", "o", "g", "c", ":", "d", "e", "f", ":", "c", "r", "s", ":">>

\* EPSG codes osr.SpatialReference.ImportFromEPSG knows (OGRERR_NONE)
KnownEPSG == {4326, 32612}

\* outcomes of a call: a spatial reference, or the exception that left it
SpatialReference(code) == [kind |-> "sr", epsg |-> code]
Raised(exc) == [kind |-> exc, epsg |-> 0]
NotCalled == [kind |-> "not called", epsg |-> 0]

ImportFromEPSG(sr_type, sr_def) ==
    IF sr_type = <<"e", "p", "s", "g">>
    THEN IF ~IntParses(sr_def) THEN Raised("ValueError")
         ELSE IF DecimalValue(sr_def) \in KnownEPSG
              THEN SpatialReference(DecimalValue(sr_def))
              ELSE Raised("RuntimeError")
    ELSE IF sr_type = <<"o", "g", "c">>
         THEN SpatialReference(4326)
         ELSE Raised("RuntimeError")

\* the 'name' branch after the presence checks
ParseNamedCrs(name) ==
    LET sr_name == SliceFrom(name, Len(ogc_crs_prefix))
        parts == SplitOnce(sr_name)
    IN IF Len(parts) # 2 THEN Raised("ValueError")
       ELSE ImportFromEPSG(Lower(parts[1]), StripColons(parts[2]))

\* a crs clause: [hasType, type, hasProperties, hasName, name, hasCode, code]
get_sr_from_crs(c) ==
    IF ~c.hasType THEN Raised("RuntimeError")
    ELSE IF c.type = <<"n", "a", "m", "e">>
         THEN IF ~c.hasProperties \/ ~c.hasName THEN Raised("RuntimeError")
              ELSE ParseNamedCrs(c.name)
         ELSE IF ~c.hasProperties \/ ~c.hasCode THEN Raised("RuntimeError")
              ELSE ImportFromEPSG(Lower(c.type), c.code)

-----------------------------------------------------------------------------
(* Inputs of the CRS resolver.                                             *)

TypeName == <<"n", "a", "m", "e">>

NamePrefixes ==
    { ogc_crs_prefix,
      <<>>,
      <<"U", "R", "N", ":", "O", "G", "C", ":", "D", "E", "F", ":", "C", "R", "S", ":">>,
      <<"u", "r", "n", ":", "x", "-", "o", "g", "c", ":", "d", "e", "f", ":", "c", "r", "s", ":">> }

Authorities ==
    { <<"E", "P", "S", "G">>, <<"e", "p", "s", "g">>, <<"E", "p", "s", "g">>,
      <<"O", "G", "C">>, <<"I", "A", "U">> }

Versions == { <<>>, <<"6", ".", "3">>, <<"0">> }

Codes ==
    { <<"4", "3", "2", "6">>, <<"3", "2", "6", "1", "2">>,
      <<"9", "9", "9", "9", "9">>, <<"C", "R", "S", "8", "4">> }

Trailers == { <<>>, <<":">>, <<":", ":">> }

CrsNames ==
    { p \o a \o <<Colon>> \o v \o <<Colon>> \o k \o t :
        p \in NamePrefixes, a \in Authorities, v \in Versions, k \in Codes, t \in Trailers }
    \cup { <<"E", "P", "S", "G">>, <<>>, ogc_crs_prefix,
           ogc_crs_prefix \o <<"E", "P", "S", "G">> }

NamedClauses ==
    { [hasType |-> TRUE, type |-> TypeName, hasProperties |-> TRUE,
       hasName |-> TRUE, name |-> n, hasCode |-> FALSE, code |-> <<>>] : n \in CrsNames }

CodedClauses ==
    { [hasType |-> TRUE, type |-> a, hasProperties |-> TRUE,
       hasName |-> FALSE, name |-> <<>>, hasCode |-> TRUE, code |-> k] :
        a \in Authorities \cup { <<"l", "i", "n", "k">> }, k \in Codes }

BrokenClauses ==
    { [hasType |-> ht, type |-> ty, hasProperties |-> hp,
       hasName |-> FALSE, name |-> <<>>, hasCode |-> FALSE, code |-> <<>>] :
        ht \in BOOLEAN, ty \in {TypeName, <<"E", "P", "S", "G">>}, hp \in BOOLEAN }

CrsClauses == NamedClauses \cup CodedClauses \cup BrokenClauses

NoClause ==
    [hasType |-> FALSE, type |-> <<>>, hasProperties |-> FALSE,
     hasName |-> FALSE, name |-> <<>>, hasCode |-> FALSE, code |-> <<>>]

-----------------------------------------------------------------------------
(* get_plot_key_name                                                       *)

\* an optional key: None, or a string (possibly the empty string, which
\* Python treats as false just like None)
NoKey == [some |-> FALSE, key |-> <<>>]
SomeKey(k) == [some |-> TRUE, key |-> k]
Truthy(ok) == ok.some /\ ok.key # <<>>

\* key in properties
HasKey(properties, k) == \E i \in 1..Len(properties) : properties[i].k = k

\* properties[key]
ValueOf(properties, k) ==
    properties[CHOOSE i \in 1..Len(properties) : properties[i].k = k].v

observationUnitName ==
    <<"o", "b", "s", "e", "r", "v", "a", "t", "i", "o", "n",
      "U", "n", "i", "t", "N", "a", "m", "e">>

\* the test of line 114
IsPlotLikeKey(one_key) ==
    /\ Contains(Lower(one_key), <<"p", "l", "o", "t">>)
    /\ \/ Contains(Lower(one_key), <<"n", "a", "m", "e">>)
       \/ Contains(Lower(one_key), <<"i", "d">>)

\* the test of line 117, without its 'not best_fit' part
IsIdKey(one_key) == Lower(one_key) = <<"i", "d">>

\* the loop body with the 'not best_fit' test of line 117 left out
BestFitStepIdOverrides(best_fit, one_key) ==
    IF IsPlotLikeKey(one_key) THEN SomeKey(one_key)
    ELSE IF IsIdKey(one_key) THEN SomeKey(one_key)
    ELSE best_fit

\* one pass of the loop body over one_key
BestFitStep(best_fit, one_key) ==
    IF IsPlotLikeKey(one_key) THEN SomeKey(one_key)
    ELSE IF IsIdKey(one_key) /\ ~Truthy(best_fit) THEN SomeKey(one_key)
    ELSE best_fit

\* best_fit after the loop has visited the first n properties
RECURSIVE BestFitAfter(_, _)
BestFitAfter(properties, n) ==
    IF n = 0 THEN NoKey
    ELSE BestFitStep(BestFitAfter(properties, n - 1), properties[n].k)

\* the return value: None, or the pair (key, name)
NothingFound == [found |-> FALSE, key |-> <<>>, name |-> ""]
Found(k, properties) == [found |-> TRUE, key |-> k, name |-> ValueOf(properties, k)]

get_plot_key_name(properties, default_key) ==
    IF Truthy(default_key) /\ HasKey(properties, default_key.key)
    THEN Found(default_key.key, properties)
    ELSE IF HasKey(properties, observationUnitName)
    THEN Found(observationUnitName, properties)
    ELSE LET best_fit == BestFitAfter(properties, Len(properties))
         IN IF Truthy(best_fit) THEN Found(best_fit.key, properties)
            ELSE NothingFound

-----------------------------------------------------------------------------
(* Inputs of the plot-name detection.                                      *)

Plot_ID == <<"P", "l", "o", "t", "_", "I", "D">>
plotname == <<"p", "l", "o", "t", "n", "a", "m", "e">>
KeyId == <<"i", "d">>
KeyID == <<"I", "D">>
KeyPlot == <<"p", "l", "o", "t">>
KeyFid == <<"f", "i", "d">>

PropertyKeys == {observationUnitName, Plot_ID, plotname, KeyId, KeyID, KeyPlot, KeyFid}

\* JSON string values; the empty string is the false one
PropertyValues == {"", "P1"}

\* the longest properties object enumerated
MaxProps == 3

\* dicts of exactly n entries: n distinct keys in every order
RECURSIVE PropertiesOfLen(_)
PropertiesOfLen(n) ==
    IF n = 0 THEN { <<>> }
    ELSE UNION { { Append(p, [k |-> key, v |-> val]) :
                     key \in { x \in PropertyKeys : ~HasKey(p, x) },
                     val \in PropertyValues } :
                 p \in PropertiesOfLen(n - 1) }

PropertiesUpTo(n) == UNION { PropertiesOfLen(i) : i \in 0..n }

DefaultKeys == {NoKey, SomeKey(<<>>)} \cup { SomeKey(k) : k \in PropertyKeys }

NotSearched == [found |-> FALSE, key |-> <<>>, name |-> "not called"]

-----------------------------------------------------------------------------
(* Geometries and dicts.                                                   *)

\* an ogr.Geometry: its spatial reference (an EPSG code, NoSR when
\* GetSpatialReference() is None) and the coordinates it covers
NoSR == 0
Geometry(sr, coords) == [sr |-> sr, coords |-> coords]

\* d[key] = value on a dict: an existing key keeps its place
DictSet(d, key, value) ==
    IF \E i \in 1..Len(d) : d[i].k = key
    THEN [i \in 1..Len(d) |-> IF d[i].k = key THEN [k |-> key, v |-> value] ELSE d[i]]
    ELSE Append(d, [k |-> key, v |-> value])

DictKeys(d) == { d[i].k : i \in 1..Len(d) }

-----------------------------------------------------------------------------
(* get_geojson_file_sr and load_plot_file                                  *)

DigitStr(n) ==
    CASE n = 0 -> "0" [] n = 1 -> "1" [] n = 2 -> "2" [] n = 3 -> "3" [] n = 4 -> "4"
      [] n = 5 -> "5" [] n = 6 -> "6" [] n = 7 -> "7" [] n = 8 -> "8" [] n = 9 -> "9"

\* str(n) for n >= 0
RECURSIVE IntToStr(_)
IntToStr(n) == IF n < 10 THEN DigitStr(n) ELSE IntToStr(n \div 10) \o DigitStr(n % 10)

\* 'Plot ' + str(feature_idx)
DefaultPlotName(idx) == "Plot " \o IntToStr(idx)

\* a GeoJSON document: [empty, hasType, hasFeatures, hasCrs, crs, features]
get_geojson_file_sr(doc) ==
    IF doc.hasCrs THEN get_sr_from_crs(doc.crs) ELSE SpatialReference(4326)

\* the checks of lines 144-154: the exception raised, or "ok"
OpenOutcome(doc) ==
    IF doc.empty \/ ~doc.hasType \/ ~doc.hasFeatures THEN "RuntimeError"
    ELSE IF get_geojson_file_sr(doc).kind = "sr" THEN "ok"
    ELSE get_geojson_file_sr(doc).kind

\* line 164 with the carried key dropped
EffectiveKeyColumnOnly(column, key) == IF Truthy(column) THEN column ELSE NoKey

\* line 164
EffectiveKey(column, key) == IF Truthy(column) THEN column ELSE key

\* line 167
IsSkipped(one_feature) ==
    ~one_feature.hasType \/ one_feature.type # "Feature" \/ ~one_feature.hasGeometry

\* line 172-173
NameOrDefault(plot_name, idx) == IF plot_name = "" THEN DefaultPlotName(idx) ELSE plot_name

\* lines 181-183: the parsed geometry carries no spatial reference of its own
AssignFileSR(geom, sr) ==
    IF geom.sr = NoSR \/ geom.sr # sr THEN Geometry(sr, geom.coords) ELSE geom

\* One pass of the loop body of load_plot_file over one_feature, from the
\* loop state st = [feature_idx, plot_key, plots, named, status].
LoadOneFeature(st, one_feature, column) ==
    LET idx == st.feature_idx + 1
        key0 == EffectiveKey(column, st.plot_key)
        found == get_plot_key_name(one_feature.properties, key0)
        key1 == IF one_feature.hasProperties THEN SomeKey(found.key) ELSE key0
        name == IF one_feature.hasProperties
                THEN NameOrDefault(found.name, idx)
                ELSE DefaultPlotName(idx)
        geom == AssignFileSR(Geometry(NoSR, one_feature.coords), st.file_sr)
    IN IF IsSkipped(one_feature)
       THEN [st EXCEPT !.feature_idx = idx, !.plot_key = key0]
       ELSE IF one_feature.hasProperties /\ ~found.found
       THEN [st EXCEPT !.feature_idx = idx, !.plot_key = key0, !.status = "TypeError"]
       ELSE IF ~one_feature.geometryParses
       THEN [st EXCEPT !.feature_idx = idx, !.plot_key = key1, !.status = "RuntimeError"]
       ELSE [st EXCEPT !.feature_idx = idx, !.plot_key = key1,
                       !.plots = DictSet(st.plots, name, geom),
                       !.named = Append(st.named,
                                        [idx |-> idx, name |-> name,
                                         offered |-> key0, key |-> key1])]

-----------------------------------------------------------------------------
(* Coordinates.  A place on the ground is one of the cells 0..3; a         *)
(* geometry in EPSG:4326 names cell c by the coordinate c, a geometry in   *)
(* EPSG:32612 by the coordinate c + 10.  ogr's Intersection and Area work  *)
(* on the coordinates and ignore the spatial references.                   *)

OffsetOf(sr) == IF sr = 32612 THEN 10 ELSE 0

\* geometries.convert_geometry(geometry, new_spatialreference): a transformed
\* clone, or the geometry itself when there is nothing to transform
convert_geometry(geom, new_sr) ==
    IF new_sr = NoSR \/ geom.sr = NoSR \/ geom.sr = new_sr THEN geom
    ELSE Geometry(new_sr, { c - OffsetOf(geom.sr) + OffsetOf(new_sr) : c \in geom.coords })

\* a.Intersection(b): the result carries a's spatial reference
Intersection(a, b) == Geometry(a.sr, a.coords \cap b.coords)

\* the area of one cell; cell 3 is degenerate (a sliver of no area)
CellArea(c) ==
    CASE c % 10 = 0 -> 1
      [] c % 10 = 1 -> 9
      [] c % 10 = 2 -> 11
      [] OTHER -> 0

RECURSIVE SumArea(_)
SumArea(coords) ==
    IF coords = {} THEN 0
    ELSE LET c == CHOOSE x \in coords : TRUE
         IN CellArea(c) + SumArea(coords \ {c})

\* geom.Area()
Area(geom) == SumArea(geom.coords)

-----------------------------------------------------------------------------
(* find_plots_intersect_boundingbox                                        *)

\* lines 208-213 with the conversion left out
CheckPolyUnconverted(bounding_box, current_poly) == current_poly

\* lines 208-213
CheckPoly(bounding_box, current_poly) ==
    IF bounding_box.sr # NoSR /\ current_poly.sr # NoSR /\ bounding_box.sr # current_poly.sr
    THEN convert_geometry(current_poly, bounding_box.sr)
    ELSE current_poly

\* lines 216-220: the intersection has coordinates
HasIntersection(bounding_box, current_poly) ==
    Intersection(bounding_box, CheckPoly(bounding_box, current_poly)).coords # {}

\* line 221: what is stored for an intersecting plot
StoredPoly(bounding_box, current_poly) == current_poly

\* intersecting_plots after the loop has visited the first n plots
RECURSIVE IntersectingAfter(_, _, _)
IntersectingAfter(bounding_box, plots_in, n) ==
    IF n = 0 THEN <<>>
    ELSE IF HasIntersection(bounding_box, plots_in[n].v)
         THEN DictSet(IntersectingAfter(bounding_box, plots_in, n - 1),
                      plots_in[n].k, StoredPoly(bounding_box, plots_in[n].v))
         ELSE IntersectingAfter(bounding_box, plots_in, n - 1)

find_plots_intersect_boundingbox(bounding_box, plots_in) ==
    IntersectingAfter(bounding_box, plots_in, Len(plots_in))

-----------------------------------------------------------------------------
(* calculate_overlap_percent: the quotient as a fraction [num, den]        *)

Fraction(num, den) == [num |-> num, den |-> den]

\* 0.0
Zero == Fraction(0, 1)

\* lines 272-280; the division by a zero area raises and is caught
calculate_overlap_percent(check_bounds, other_bounds) ==
    IF Area(check_bounds) = 0 THEN Zero
    ELSE Fraction(Area(Intersection(other_bounds, check_bounds)), Area(check_bounds))

\* line 445 with <= for <
TooSmallOverlapInclusive(overlap) == 10 * overlap.num <= overlap.den

\* line 445: overlap < 0.10
TooSmallOverlap(overlap) == 10 * overlap.num < overlap.den

-----------------------------------------------------------------------------
(* get_files_to_process                                                    *)

Slash == "/"

\* os.path.basename(path): what follows the last '/'
Basename(path) ==
    IF \E i \in 1..Len(path) : path[i] = Slash
    THEN LET last == CHOOSE i \in 1..Len(path) :
                         path[i] = Slash /\ \A j \in (i + 1)..Len(path) : path[j] # Slash
         IN SubSeq(path, last + 1, Len(path))
    ELSE path

ExtTif == <<".", "t", "i", "f">>
ExtLas == <<".", "l", "a", "s">>

\* geoimage.get_image_bounds / lasfile.get_las_extents: the footprint the
\* file on disk has.  The point cloud covers the four cells in EPSG:32612,
\* the image in a sub-folder cells 0 and 1 and any other image cell 0, both
\* in EPSG:4326.
FileBounds(path) ==
    IF EndsWith(path, ExtLas) THEN Geometry(32612, {10, 11, 12, 13})
    ELSE IF Len(path) > Len(Basename(path)) THEN Geometry(4326, {0, 1})
    ELSE Geometry(4326, {0})

FileEntry(one_file, sensor) ==
    [path |-> one_file, bounds |-> FileBounds(one_file), sensor_name |-> sensor]

\* the loop body without the test of line 239: a later path replaces the
\* descriptor of its basename
FilesStepLastWins(files, one_file, sensor, on_disk) ==
    IF one_file \notin on_disk THEN files
    ELSE IF EndsWith(one_file, ExtTif) \/ EndsWith(one_file, ExtLas)
    THEN DictSet(files, Basename(one_file), FileEntry(one_file, sensor))
    ELSE files

\* one pass of the loop body (lines 238-256) over one_file
FilesStep(files, one_file, sensor, on_disk) ==
    IF Basename(one_file) \in DictKeys(files) THEN files
    ELSE IF one_file \notin on_disk THEN files
    ELSE IF EndsWith(one_file, ExtTif) \/ EndsWith(one_file, ExtLas)
    THEN DictSet(files, Basename(one_file), FileEntry(one_file, sensor))
    ELSE files

RECURSIVE FilesAfter(_, _, _, _)
FilesAfter(paths, n, sensor, on_disk) ==
    IF n = 0 THEN <<>>
    ELSE FilesStep(FilesAfter(paths, n - 1, sensor, on_disk), paths[n], sensor, on_disk)

get_files_to_process(paths, sensor, on_disk) ==
    FilesAfter(paths, Len(paths), sensor, on_disk)

-----------------------------------------------------------------------------
(* prepare_container_md and merge_container_md                             *)

\* os.path.join(check_md['working_folder'], plot_name, filename)
OutFile(plot_name, filename) == [folder |-> plot_name, file |-> filename]

FileRecord(one_file, sensor, source_file, plot_name) ==
    [path |-> one_file, key |-> sensor,
     metadata |-> [source |-> source_file, plot_name |-> plot_name]]

\* cur_md['file'] after the loop has visited the first n result files
RECURSIVE PreparedFiles(_, _, _, _, _, _)
PreparedFiles(result_files, n, sensor, source_file, plot_name, on_disk) ==
    IF n = 0 THEN <<>>
    ELSE LET sofar == PreparedFiles(result_files, n - 1, sensor, source_file,
                                    plot_name, on_disk)
         IN IF result_files[n] \in on_disk
            THEN Append(sofar, FileRecord(result_files[n], sensor, source_file, plot_name))
            ELSE sofar

\* a container entry; hasFiles/files is the 'files' key, which
\* prepare_container_md never sets
prepare_container_md(plot_name, plot_md, sensor, source_file, result_files, on_disk) ==
    [name |-> plot_name,
     metadata |-> [replace |-> TRUE, data |-> plot_md],
     file |-> PreparedFiles(result_files, Len(result_files), sensor, source_file,
                            plot_name, on_disk),
     hasFiles |-> FALSE,
     files |-> <<>>]

\* lines 354-359 with the name comparison never succeeding
MatchIndexNever(dest, name) == 0

\* lines 354-359: the index of the first entry of that name, 0 for -1
MatchIndex(dest, name) ==
    IF \E i \in 1..Len(dest) : dest[i].name = name
    THEN CHOOSE i \in 1..Len(dest) :
             dest[i].name = name /\ \A j \in 1..(i - 1) : dest[j].name # name
    ELSE 0

\* lines 372-378 with the path comparison never succeeding
AppendAlways(working_files, one_file) == Append(working_files, one_file)

\* lines 372-378 for one_file
AppendIfNew(working_files, one_file) ==
    IF \E i \in 1..Len(working_files) : working_files[i].path = one_file.path
    THEN working_files
    ELSE Append(working_files, one_file)

\* lines 371-378 after the first n files of new_files
RECURSIVE MergedFiles(_, _, _)
MergedFiles(working_files, new_files, n) ==
    IF n = 0 THEN working_files
    ELSE AppendIfNew(MergedFiles(working_files, new_files, n - 1), new_files[n])

\* lines 366-383: the matched entry after the merge
MergeInto(working_md, entry) ==
    IF entry.hasFiles
    THEN IF working_md.hasFiles
         THEN [working_md EXCEPT
                  !.files = MergedFiles(working_md.files, entry.files, Len(entry.files))]
         ELSE [working_md EXCEPT !.hasFiles = TRUE, !.files = entry.files]
    ELSE working_md

\* new_md is a dict with a 'name', so it is never false
merge_container_md(dest, entry) ==
    IF dest = <<>> THEN <<entry>>
    ELSE IF MatchIndex(dest, entry.name) = 0 THEN Append(dest, entry)
    ELSE [dest EXCEPT ![MatchIndex(dest, entry.name)] = MergeInto(@, entry)]

-----------------------------------------------------------------------------
(* Inputs of the catalog loader.                                           *)

Prop(key, val) == [k |-> key, v |-> val]

LoaderProperties ==
    { <<>>,
      <<Prop(Plot_ID, "P1")>>,
      <<Prop(Plot_ID, "P2"), Prop(observationUnitName, "P1")>>,
      <<Prop(observationUnitName, "P2")>>,
      <<Prop(KeyId, "P1")>>,
      <<Prop(KeyFid, "P1")>>,
      <<Prop(Plot_ID, "")>> }

\* a feature before its geometry is filled in
FeatureShape(hasType, type, hasGeometry, parses, hasProperties, properties) ==
    [hasType |-> hasType, type |-> type, hasGeometry |-> hasGeometry,
     geometryParses |-> parses, hasProperties |-> hasProperties,
     properties |-> properties, coords |-> {}]

FeatureShapes ==
    { FeatureShape(TRUE, "Feature", TRUE, TRUE, TRUE, p) : p \in LoaderProperties }
    \cup { FeatureShape(TRUE, "Feature", TRUE, TRUE, FALSE, <<>>),
           FeatureShape(TRUE, "Point", TRUE, TRUE, TRUE, <<Prop(observationUnitName, "P1")>>),
           FeatureShape(TRUE, "Feature", FALSE, TRUE, TRUE, <<>>),
           FeatureShape(TRUE, "Feature", TRUE, FALSE, TRUE, <<Prop(Plot_ID, "P1")>>) }

\* the longest feature list enumerated
MaxFeatures == 3

\* the i-th feature of a document covers coordinate i
FeatureLists ==
    UNION { { [i \in 1..n |-> [shapes[i] EXCEPT !.coords = {i}]] :
                shapes \in [1..n -> FeatureShapes] } : n \in 0..MaxFeatures }

NamedCrs(n) ==
    [hasType |-> TRUE, type |-> TypeName, hasProperties |-> TRUE,
     hasName |-> TRUE, name |-> n, hasCode |-> FALSE, code |-> <<>>]

Document(empty, hasType, hasFeatures, hasCrs, clause, features) ==
    [empty |-> empty, hasType |-> hasType, hasFeatures |-> hasFeatures,
     hasCrs |-> hasCrs, crs |-> clause, features |-> features]

LoaderDocuments ==
    { Document(FALSE, TRUE, TRUE, FALSE, NoClause, f) : f \in FeatureLists }
    \cup { Document(FALSE, TRUE, TRUE, TRUE,
                    NamedCrs(ogc_crs_prefix \o <<"E", "P", "S", "G", ":", ":",
                                                  "3", "2", "6", "1", "2">>), f) :
             f \in FeatureLists }
    \cup { Document(TRUE, FALSE, FALSE, FALSE, NoClause, <<>>),
           Document(FALSE, TRUE, FALSE, FALSE, NoClause, <<>>),
           Document(FALSE, FALSE, TRUE, FALSE, NoClause, <<>>),
           Document(FALSE, TRUE, TRUE, TRUE,
                    NamedCrs(ogc_crs_prefix \o <<"I", "A", "U", ":", ":", "1">>), <<>>),
           Document(FALSE, TRUE, TRUE, TRUE,
                    NamedCrs(ogc_crs_prefix \o <<"E", "P", "S", "G", ":", "6", ".", "3", ":",
                                                  "3", "2", "6", "1", "2">>), <<>>) }

PlotColumns == {NoKey, SomeKey(Plot_ID), SomeKey(KeyFid)}

NoDocument == Document(TRUE, FALSE, FALSE, FALSE, NoClause, <<>>)

-----------------------------------------------------------------------------
(* Inputs of the matcher, the merger and the driver.                       *)

CatalogNames == {"P1", "P2", "P3"}

\* the largest plot catalog enumerated
MaxPlots == 2

\* catalogs as load_plot_file builds them: distinct names, every geometry
\* in the file's spatial reference sr, its coordinates one of shapes
RECURSIVE CatalogsOfLen(_, _, _)
CatalogsOfLen(n, sr, shapes) ==
    IF n = 0 THEN { <<>> }
    ELSE UNION { { Append(c, [k |-> name, v |-> Geometry(sr, shape)]) :
                     name \in CatalogNames \ DictKeys(c), shape \in shapes } :
                 c \in CatalogsOfLen(n - 1, sr, shapes) }

Catalogs(shapes) ==
    UNION { CatalogsOfLen(n, 4326, shapes) \cup
            CatalogsOfLen(n, 32612, { { c + 10 : c \in shape } : shape \in shapes }) :
            n \in 0..MaxPlots }

MatchShapes == { {0}, {0, 1}, {0, 2}, {3}, {1, 2}, {2, 3} }

MatchFootprints ==
    { Geometry(sr, { c + OffsetOf(sr) : c \in shape }) :
        sr \in {NoSR, 4326, 32612},
        shape \in { {0}, {1}, {2}, {3}, {0, 1}, {0, 1, 2, 3} } }

NoGeometry == Geometry(NoSR, {})

\* the sensor argument
SensorName == "rgb"

FileA == <<"a", ".", "t", "i", "f">>
FileB == <<"b", ".", "l", "a", "s">>

\* result files and entries offered to the merger
MergePaths == { OutFile("P1", FileA), OutFile("P1", FileB) }

\* the longest list of result files or of 'files' records enumerated
MaxResultFiles == 2

RECURSIVE ListsOfLen(_, _)
ListsOfLen(n, items) ==
    IF n = 0 THEN { <<>> }
    ELSE { Append(l, x) : l \in ListsOfLen(n - 1, items), x \in items }

ListsUpTo(n, items) == UNION { ListsOfLen(i, items) : i \in 0..n }

NoRepeat(l) == \A i, j \in 1..Len(l) : l[i] = l[j] => i = j

\* entries as prepare_container_md builds them from result files without
\* repeats, some of which may be missing from the disk
PreparedEntries ==
    { prepare_container_md(name, [plot_name |-> name], SensorName, FileA, files, on_disk) :
        name \in {"P1", "P2"},
        files \in { l \in ListsUpTo(MaxResultFiles, MergePaths) : NoRepeat(l) },
        on_disk \in SUBSET MergePaths }

\* entries that carry the 'files' key merge_container_md reads
FilesEntries ==
    { [name |-> name,
       metadata |-> [replace |-> TRUE, data |-> [plot_name |-> name]],
       file |-> <<>>,
       hasFiles |-> TRUE,
       files |-> [i \in 1..Len(l) |-> FileRecord(l[i], SensorName, FileA, name)]] :
        name \in {"P1"}, l \in ListsUpTo(MaxResultFiles, MergePaths) }

NoEntry ==
    [name |-> "", metadata |-> [replace |-> TRUE, data |-> [plot_name |-> ""]],
     file |-> <<>>, hasFiles |-> FALSE, files |-> <<>>]

\* inputs of perform_process
FileDA == <<"d", "/", "a", ".", "t", "i", "f">>
FileC == <<"c", ".", "t", "x", "t">>

RunPaths == {FileA, FileDA, FileB, FileC}

\* the longest input file list enumerated
MaxFiles == 2

RunShapes == { {0, 1}, {0, 2}, {3} }

\* inputs of get_files_to_process: three paths with the basename a.tif, a
\* point cloud and a file of another kind
FileEA == <<"e", "/", "a", ".", "t", "i", "f">>

ScanPaths == RunPaths \cup {FileEA}

\* the longest file list scanned
MaxScan == 3

-----------------------------------------------------------------------------
(* The CRS resolver as a state machine: a clause arrives, the call runs.   *)

IdleCrs == crs = NoClause /\ crs_result = NotCalled

IdleKeyName ==
    kn_properties = <<>> /\ kn_default_key = NoKey /\ kn_result = NotSearched

IdleLoad ==
    /\ geojson = NoDocument
    /\ plot_column = NoKey
    /\ load_status = "idle"
    /\ file_sr = NoSR
    /\ feature_idx = 0
    /\ plot_key = NoKey
    /\ plots = <<>>
    /\ named = <<>>

IdleMatch ==
    /\ mt_bounding_box = NoGeometry
    /\ mt_all_plots = <<>>
    /\ mt_status = "idle"
    /\ mt_result = <<>>

IdleMerge == dest_md = <<>> /\ new_md = NoEntry /\ merge_op = "idle"

NoResult ==
    [code |-> -1, container |-> <<>>, total_file_count |-> 0,
     processed_file_count |-> 0, total_plots_processed |-> 0]

RunLocalsInit ==
    /\ files_to_process = <<>>
    /\ all_plots = <<>>
    /\ file_pos = 0
    /\ overlap_plots = <<>>
    /\ plot_pos = 0
    /\ container_md = <<>>
    /\ processed_files = 0
    /\ processed_plots = 0
    /\ clip_calls = <<>>
    /\ result = NoResult

IdleRun ==
    /\ file_list = <<>>
    /\ disk = {}
    /\ plot_file = <<>>
    /\ pc = "idle"
    /\ RunLocalsInit

InitCrs ==
    /\ crs \in CrsClauses
    /\ crs_result = NotCalled
    /\ IdleKeyName
    /\ IdleLoad
    /\ IdleMatch
    /\ IdleMerge
    /\ IdleRun

ResolveCrs ==
    /\ crs_result = NotCalled
    /\ crs_result' = get_sr_from_crs(crs)
    /\ UNCHANGED <<crs, kn_vars, load_vars, match_vars, merge_vars, run_vars>>

NextCrs == ResolveCrs

SpecCrs == InitCrs /\ [][NextCrs]_vars

-----------------------------------------------------------------------------
(* The plot-name detection as a state machine.                             *)

InitKeyName ==
    /\ kn_properties \in PropertiesUpTo(MaxProps)
    /\ kn_default_key \in DefaultKeys
    /\ kn_result = NotSearched
    /\ IdleCrs
    /\ IdleLoad
    /\ IdleMatch
    /\ IdleMerge
    /\ IdleRun

SearchKeyName ==
    /\ kn_result = NotSearched
    /\ kn_result' = get_plot_key_name(kn_properties, kn_default_key)
    /\ UNCHANGED <<crs_vars, kn_properties, kn_default_key, load_vars, match_vars,
                   merge_vars, run_vars>>

NextKeyName == SearchKeyName

SpecKeyName == InitKeyName /\ [][NextKeyName]_vars

-----------------------------------------------------------------------------
(* load_plot_file as a state machine: the checks before the loop, one step *)
(* per feature, the return.                                                *)

InitLoad ==
    /\ geojson \in LoaderDocuments
    /\ plot_column \in PlotColumns
    /\ load_status = "start"
    /\ file_sr = NoSR
    /\ feature_idx = 0
    /\ plot_key = NoKey
    /\ plots = <<>>
    /\ named = <<>>
    /\ IdleCrs
    /\ IdleKeyName
    /\ IdleMatch
    /\ IdleMerge
    /\ IdleRun

\* lines 142-159
LoadOpen ==
    /\ load_status = "start"
    /\ IF OpenOutcome(geojson) = "ok"
       THEN load_status' = "loop" /\ file_sr' = get_geojson_file_sr(geojson).epsg
       ELSE load_status' = OpenOutcome(geojson) /\ UNCHANGED file_sr
    /\ UNCHANGED <<crs_vars, kn_vars, match_vars, merge_vars, run_vars,
                   geojson, plot_column, feature_idx, plot_key, plots, named>>

\* lines 160-187, one feature
LoadFeature ==
    /\ load_status = "loop"
    /\ feature_idx < Len(geojson.features)
    /\ LET st == LoadOneFeature([feature_idx |-> feature_idx, plot_key |-> plot_key,
                                 plots |-> plots, named |-> named,
                                 status |-> load_status, file_sr |-> file_sr],
                                geojson.features[feature_idx + 1], plot_column)
       IN /\ feature_idx' = st.feature_idx
          /\ plot_key' = st.plot_key
          /\ plots' = st.plots
          /\ named' = st.named
          /\ load_status' = st.status
    /\ UNCHANGED <<crs_vars, kn_vars, match_vars, merge_vars, run_vars, geojson, plot_column, file_sr>>

\* line 189
LoadReturn ==
    /\ load_status = "loop"
    /\ feature_idx = Len(geojson.features)
    /\ load_status' = "returned"
    /\ UNCHANGED <<crs_vars, kn_vars, match_vars, merge_vars, run_vars, geojson, plot_column,
                   file_sr, feature_idx, plot_key, plots, named>>

NextLoad == LoadOpen \/ LoadFeature \/ LoadReturn

SpecLoad == InitLoad /\ [][NextLoad]_vars

-----------------------------------------------------------------------------
(* The spatial matcher as a state machine.                                 *)

InitMatch ==
    /\ mt_bounding_box \in MatchFootprints
    /\ mt_all_plots \in Catalogs(MatchShapes)
    /\ mt_status = "start"
    /\ mt_result = <<>>
    /\ IdleCrs
    /\ IdleKeyName
    /\ IdleLoad
    /\ IdleMerge
    /\ IdleRun

FindPlots ==
    /\ mt_status = "start"
    /\ mt_result' = find_plots_intersect_boundingbox(mt_bounding_box, mt_all_plots)
    /\ mt_status' = "called"
    /\ UNCHANGED <<crs_vars, kn_vars, load_vars, merge_vars, run_vars,
                   mt_bounding_box, mt_all_plots>>

NextMatch == FindPlots

SpecMatch == InitMatch /\ [][NextMatch]_vars

-----------------------------------------------------------------------------
(* The metadata merger as a state machine: a caller that folds entries     *)
(* into its list, container_md = merge_container_md(container_md, cur_md), *)
(* and may merge the entry it holds once more.                             *)

InitMerge ==
    /\ dest_md = <<>>
    /\ new_md = NoEntry
    /\ merge_op = "start"
    /\ IdleCrs
    /\ IdleKeyName
    /\ IdleLoad
    /\ IdleMatch
    /\ IdleRun

MergePrepared ==
    /\ \E e \in PreparedEntries :
          /\ dest_md' = merge_container_md(dest_md, e)
          /\ new_md' = e
    /\ merge_op' = "first"
    /\ UNCHANGED <<crs_vars, kn_vars, load_vars, match_vars, run_vars>>

MergeWithFiles ==
    /\ \E e \in FilesEntries :
          /\ dest_md' = merge_container_md(dest_md, e)
          /\ new_md' = e
    /\ merge_op' = "first"
    /\ UNCHANGED <<crs_vars, kn_vars, load_vars, match_vars, run_vars>>

MergeAgain ==
    /\ merge_op \in {"first", "again"}
    /\ dest_md' = merge_container_md(dest_md, new_md)
    /\ merge_op' = "again"
    /\ UNCHANGED <<crs_vars, kn_vars, load_vars, match_vars, run_vars, new_md>>

NextMerge == MergePrepared \/ MergeWithFiles \/ MergeAgain

SpecMerge == InitMerge /\ [][NextMerge]_vars

-----------------------------------------------------------------------------
(* get_files_to_process as a state machine: one step per path of the list, *)
(* file_pos counting the paths the loop of line 237 has taken, over every  *)
(* list of paths and every set of paths that exist.                        *)

InitScan ==
    /\ file_list \in ListsUpTo(MaxScan, ScanPaths)
    /\ disk \in SUBSET ScanPaths
    /\ plot_file = <<>>
    /\ pc = "scan"
    /\ RunLocalsInit
    /\ IdleCrs
    /\ IdleKeyName
    /\ IdleLoad
    /\ IdleMatch
    /\ IdleMerge

\* lines 237-256, one pass
ScanFile ==
    /\ pc = "scan"
    /\ file_pos < Len(file_list)
    /\ file_pos' = file_pos + 1
    /\ files_to_process' =
           FilesStep(files_to_process, file_list[file_pos + 1], SensorName, disk)
    /\ UNCHANGED <<crs_vars, kn_vars, load_vars, match_vars, merge_vars, run_inputs, pc,
                   all_plots, overlap_plots, plot_pos, container_md, processed_files,
                   processed_plots, clip_calls, result>>

NextScan == ScanFile

SpecScan == InitScan /\ [][NextScan]_vars

-----------------------------------------------------------------------------
(* perform_process as a state machine: the set-up, one step per file, one  *)
(* step per intersecting plot, the return.  The clipping collaborators     *)
(* either write the output file, return without writing it, or raise.      *)

Init ==
    /\ file_list \in { l \in ListsUpTo(MaxFiles, RunPaths) : NoRepeat(l) }
    /\ disk \in {RunPaths, RunPaths \ {FileA}}
    /\ plot_file \in Catalogs(RunShapes)
    /\ pc = "start"
    /\ RunLocalsInit
    /\ IdleCrs
    /\ IdleKeyName
    /\ IdleLoad
    /\ IdleMatch
    /\ IdleMerge

others == <<crs_vars, kn_vars, load_vars, match_vars, merge_vars, run_inputs>>

\* lines 416-428
ProcessStart ==
    /\ pc = "start"
    /\ files_to_process' = get_files_to_process(file_list, SensorName, disk)
    /\ all_plots' = IF files_to_process' # <<>> THEN plot_file ELSE <<>>
    /\ pc' = "files"
    /\ UNCHANGED <<others, file_pos, overlap_plots, plot_pos, container_md,
                   processed_files, processed_plots, clip_calls, result>>

\* line 427: load_plot_file raises
ProcessLoadRaises ==
    /\ pc = "start"
    /\ get_files_to_process(file_list, SensorName, disk) # <<>>
    /\ files_to_process' = get_files_to_process(file_list, SensorName, disk)
    /\ pc' = "raised"
    /\ UNCHANGED <<others, all_plots, file_pos, overlap_plots, plot_pos, container_md,
                   processed_files, processed_plots, clip_calls, result>>

\* lines 430-440
NextFile ==
    /\ pc = "files"
    /\ file_pos < Len(files_to_process)
    /\ file_pos' = file_pos + 1
    /\ processed_files' = processed_files + 1
    /\ overlap_plots' =
           find_plots_intersect_boundingbox(files_to_process[file_pos + 1].v.bounds, all_plots)
    /\ plot_pos' = 0
    /\ pc' = "plots"
    /\ UNCHANGED <<others, files_to_process, all_plots, container_md, processed_plots,
                   clip_calls, result>>

\* the file and the plot the inner loop takes next
CurrentFile == files_to_process[file_pos]
CurrentPlot == overlap_plots[plot_pos + 1]

\* line 443
PlotBounds(plot_geom, file_bounds) == convert_geometry(plot_geom, file_bounds.sr)

\* lines 443-445
CurrentOverlap ==
    calculate_overlap_percent(PlotBounds(CurrentPlot.v, CurrentFile.v.bounds),
                              CurrentFile.v.bounds)

ClipRequest(filename, plot_name) == [file |-> filename, plot |-> plot_name]

\* lines 441-447
SkipPlot ==
    /\ pc = "plots"
    /\ plot_pos < Len(overlap_plots)
    /\ TooSmallOverlap(CurrentOverlap)
    /\ processed_plots' = processed_plots + 1
    /\ plot_pos' = plot_pos + 1
    /\ UNCHANGED <<others, pc, files_to_process, all_plots, file_pos, overlap_plots,
                   container_md, processed_files, clip_calls, result>>

\* lines 441-478, the clip returning
ClipPlot ==
    /\ pc = "plots"
    /\ plot_pos < Len(overlap_plots)
    /\ ~TooSmallOverlap(CurrentOverlap)
    /\ processed_plots' = processed_plots + 1
    /\ plot_pos' = plot_pos + 1
    /\ clip_calls' = Append(clip_calls, ClipRequest(CurrentFile.k, CurrentPlot.k))
    /\ \E written \in BOOLEAN :
          LET out_file == OutFile(CurrentPlot.k, CurrentFile.k)
              cur_md == prepare_container_md(CurrentPlot.k, [plot_name |-> CurrentPlot.k],
                                             CurrentFile.v.sensor_name, CurrentFile.v.path,
                                             <<out_file>>,
                                             IF written THEN {out_file} ELSE {})
          IN container_md' = merge_container_md(container_md, cur_md)
    /\ UNCHANGED <<others, pc, files_to_process, all_plots, file_pos, overlap_plots,
                   processed_files, result>>

\* lines 441-475, the clip raising
ClipRaises ==
    /\ pc = "plots"
    /\ plot_pos < Len(overlap_plots)
    /\ ~TooSmallOverlap(CurrentOverlap)
    /\ processed_plots' = processed_plots + 1
    /\ clip_calls' = Append(clip_calls, ClipRequest(CurrentFile.k, CurrentPlot.k))
    /\ pc' = "raised"
    /\ UNCHANGED <<others, files_to_process, all_plots, file_pos, overlap_plots, plot_pos,
                   container_md, processed_files, result>>

\* the inner loop is exhausted
EndFile ==
    /\ pc = "plots"
    /\ plot_pos = Len(overlap_plots)
    /\ pc' = "files"
    /\ UNCHANGED <<others, files_to_process, all_plots, file_pos, overlap_plots, plot_pos,
                   container_md, processed_files, processed_plots, clip_calls, result>>

\* lines 480-492
Return ==
    /\ pc = "files"
    /\ file_pos = Len(files_to_process)
    /\ result' = [code |-> 0, container |-> container_md,
                  total_file_count |-> Len(file_list),
                  processed_file_count |-> processed_files,
                  total_plots_processed |-> processed_plots]
    /\ pc' = "returned"
    /\ UNCHANGED <<others, files_to_process, all_plots, file_pos, overlap_plots, plot_pos,
                   container_md, processed_files, processed_plots, clip_calls>>

Next ==
    \/ ProcessStart
    \/ ProcessLoadRaises
    \/ NextFile
    \/ SkipPlot
    \/ ClipPlot
    \/ ClipRaises
    \/ EndFile
    \/ Return

Spec == Init /\ [][Next]_vars

-----------------------------------------------------------------------------
(* Properties.                                                             *)

PathsOf(records) == { records[i].path : i \in 1..Len(records) }

\* C1: merging a prepare_container_md entry named N with file records F2
\* into a list that holds a prepare_container_md entry named N with file
\* records F1, no path of F2 occurring in F1, leaves exactly one entry named
\* N whose file list is the union of F1 and F2, of length |F1| + |F2|.
C1_DisjointMergeIsUnion ==
    [][ \A i \in 1..Len(dest_md) :
          ( /\ merge_op' = "first"
            /\ ~new_md'.hasFiles
            /\ ~dest_md[i].hasFiles
            /\ dest_md[i].name = new_md'.name
            /\ PathsOf(dest_md[i].file) \cap PathsOf(new_md'.file) = {} )
          => /\ Cardinality({ j \in 1..Len(dest_md') : dest_md'[j].name = new_md'.name }) = 1
             /\ \A j \in 1..Len(dest_md') :
                  dest_md'[j].name = new_md'.name =>
                    /\ Len(dest_md'[j].file) = Len(dest_md[i].file) + Len(new_md'.file)
                    /\ PathsOf(dest_md'[j].file) =
                         PathsOf(dest_md[i].file) \cup PathsOf(new_md'.file)
      ]_vars

\* C2: in every state of a run that folds entries into an empty list with
\* merge_container_md, no two entries of the list share a name, and within
\* each entry no two file records share a path.
C2_UniqueNamesAndPaths ==
    /\ \A i, j \in 1..Len(dest_md) : dest_md[i].name = dest_md[j].name => i = j
    /\ \A i \in 1..Len(dest_md) :
         \A a, b \in 1..Len(dest_md[i].file) :
            dest_md[i].file[a].path = dest_md[i].file[b].path => a = b

\* C2 witness: a prepared entry was merged into a list that already held
\* another entry of its name, beside an entry of a different name, and an
\* entry of the list holds two file records.
C2_Witness ==
    /\ merge_op = "first"
    /\ ~new_md.hasFiles
    /\ Len(dest_md) = 2
    /\ \E i \in 1..Len(dest_md) : dest_md[i].name = new_md.name /\ dest_md[i] # new_md
    /\ \E i \in 1..Len(dest_md) : Len(dest_md[i].file) = 2

\* the claim's own reading of a plot-like key
C3_PlotLike(key) ==
    LET low == Lower(key)
    IN /\ Contains(low, <<"p", "l", "o", "t">>)
       /\ Contains(low, <<"n", "a", "m", "e">>) \/ Contains(low, <<"i", "d">>)

C3_Returned(index) ==
    /\ kn_result.found
    /\ kn_result.key = kn_properties[index].k
    /\ kn_result.name = kn_properties[index].v

\* C3: get_plot_key_name picks, in this order, the supplied default key when
\* the properties hold it, else observationUnitName, else the last key in
\* property order that is plot-like, else a key equal to "id" whatever its
\* case; a plot-like key wins over an "id" key whatever their order; the
\* name returned is the value stored under the key picked.
C3_KeyPriority ==
    kn_result # NotSearched =>
      LET at(key) == { i \in 1..Len(kn_properties) : kn_properties[i].k = key }
          plotLike == { i \in 1..Len(kn_properties) : C3_PlotLike(kn_properties[i].k) }
          ids == { i \in 1..Len(kn_properties) :
                     Lower(kn_properties[i].k) = <<"i", "d">> }
          supplied == kn_default_key.some /\ kn_default_key.key # <<>>
      IN IF supplied /\ at(kn_default_key.key) # {}
         THEN \E i \in at(kn_default_key.key) : C3_Returned(i)
         ELSE IF at(observationUnitName) # {}
         THEN \E i \in at(observationUnitName) : C3_Returned(i)
         ELSE IF plotLike # {}
         THEN \E i \in plotLike : C3_Returned(i) /\ \A j \in plotLike : j <= i
         ELSE IF ids # {}
         THEN \E i \in ids : C3_Returned(i)
         ELSE TRUE

\* C3 witness: no default key and no observationUnitName, an "id" key that
\* comes before a plot-like key, and the plot-like key was returned.
C3_Witness ==
    /\ kn_result.found
    /\ ~kn_default_key.some
    /\ \E i, j \in 1..Len(kn_properties) :
          /\ i < j
          /\ Lower(kn_properties[i].k) = <<"i", "d">>
          /\ C3_PlotLike(kn_properties[j].k)
          /\ kn_result.key = kn_properties[j].k

\* the feature at position idx of the document
FeatureAt(idx) == geojson.features[idx]

WellFormed(feature) ==
    feature.hasType /\ feature.type = "Feature" /\ feature.hasGeometry
    /\ feature.geometryParses

\* no key of the feature can serve as a name key: it has no properties, or
\* none of its keys is the explicit column, observationUnitName, plot-like
\* or "id"
C4_NoNameKey(feature) ==
    \/ ~feature.hasProperties
    \/ \A i \in 1..Len(feature.properties) :
         LET key == feature.properties[i].k
         IN /\ ~(plot_column.some /\ plot_column.key = key)
            /\ key # observationUnitName
            /\ ~C3_PlotLike(key)
            /\ Lower(key) # <<"i", "d">>

\* C4: every well-formed feature the loader has visited and for which no
\* name key is found (its properties empty or without a matching key
\* included) is stored under "Plot " and its 1-based position, and the load
\* has not failed on it.
C4_UnnamedFeatureGetsDefault ==
    \A idx \in 1..feature_idx :
      (WellFormed(FeatureAt(idx)) /\ C4_NoNameKey(FeatureAt(idx)))
      => /\ feature_idx = idx => load_status \in {"loop", "returned"}
         /\ \E n \in 1..Len(named) :
              named[n].idx = idx /\ named[n].name = DefaultPlotName(idx)

\* C5 as stated: without an explicit column, once a key K was chosen for a
\* stored feature, every later stored feature whose properties hold K is
\* named by its value under K.
C5_KeyStaysForEveryLaterFeature ==
    ~Truthy(plot_column) =>
      \A a, b \in 1..Len(named) :
        ( /\ a < b
          /\ Truthy(named[a].key)
          /\ FeatureAt(named[b].idx).hasProperties
          /\ HasKey(FeatureAt(named[b].idx).properties, named[a].key.key) )
        => named[b].name = ValueOf(FeatureAt(named[b].idx).properties, named[a].key.key)

\* C5 as amended: the key offered first to a stored feature is the explicit
\* column when one is supplied, and otherwise the key chosen for the stored
\* feature before it (none for the first); a feature without properties
\* keeps the key offered to it; a feature whose properties hold the key
\* offered keeps that key and is named by its value under it, or by
\* "Plot " and its position when that value is empty.
C5_LastChosenKeyOfferedFirst ==
    \A b \in 1..Len(named) :
      LET feature == FeatureAt(named[b].idx)
          offered == IF Truthy(plot_column) THEN plot_column
                     ELSE IF b = 1 THEN NoKey ELSE named[b - 1].key
      IN /\ named[b].offered = offered
         /\ ~feature.hasProperties => named[b].key = offered
         /\ ( /\ feature.hasProperties
              /\ Truthy(offered)
              /\ HasKey(feature.properties, offered.key) )
            => /\ named[b].key = offered
               /\ named[b].name =
                    IF ValueOf(feature.properties, offered.key) = ""
                    THEN DefaultPlotName(named[b].idx)
                    ELSE ValueOf(feature.properties, offered.key)

\* C5 witness: no explicit column; a key chosen for the first feature; a
\* second feature without properties; a third feature that holds the key
\* and observationUnitName and is named by the key's value.
C5_Witness ==
    /\ ~Truthy(plot_column)
    /\ Len(named) = 3
    /\ Truthy(named[1].key)
    /\ named[1].key.key # observationUnitName
    /\ ~FeatureAt(named[2].idx).hasProperties
    /\ HasKey(FeatureAt(named[3].idx).properties, named[1].key.key)
    /\ HasKey(FeatureAt(named[3].idx).properties, observationUnitName)
    /\ named[3].name = ValueOf(FeatureAt(named[3].idx).properties, named[1].key.key)
    /\ named[3].name # ValueOf(FeatureAt(named[3].idx).properties, observationUnitName)

\* the coordinates of a geometry expressed in the spatial reference of a
\* footprint; a footprint without a spatial reference has none to express
\* the geometry in, and the geometry is taken as it is
C6_InFootprintCRS(geom, footprint) ==
    IF footprint.sr = NoSR \/ geom.sr = NoSR THEN geom.coords
    ELSE { c - OffsetOf(geom.sr) + OffsetOf(footprint.sr) : c \in geom.coords }

\* C6: the matcher returns exactly the catalog entries whose geometry,
\* expressed in the footprint's spatial reference, shares a coordinate with
\* the footprint (none when the footprint is disjoint from every plot), and
\* each value returned is the catalog's own geometry, not a reprojection.
C6_MatchIsExactlyIntersecting ==
    mt_status = "called" =>
      LET hits == { i \in 1..Len(mt_all_plots) :
                      C6_InFootprintCRS(mt_all_plots[i].v, mt_bounding_box)
                        \cap mt_bounding_box.coords # {} }
      IN /\ DictKeys(mt_result) = { mt_all_plots[i].k : i \in hits }
         /\ Len(mt_result) = Cardinality(hits)
         /\ \A i \in hits : \E r \in 1..Len(mt_result) :
              mt_result[r].k = mt_all_plots[i].k /\ mt_result[r].v = mt_all_plots[i].v

\* C6 witness: a catalog in another spatial reference than the footprint's,
\* of which one plot is returned and another is not.
C6_Witness ==
    /\ mt_status = "called"
    /\ mt_bounding_box.sr # NoSR
    /\ Len(mt_all_plots) = 2
    /\ mt_all_plots[1].v.sr # mt_bounding_box.sr
    /\ Len(mt_result) = 1

\* the claim's overlap fraction of a plot and a footprint as [num, den],
\* den = 0 standing for the computation that raises
C7_Fraction(plot_geom, footprint) ==
    LET inCrs == C6_InFootprintCRS(plot_geom, footprint)
    IN [num |-> SumArea(inCrs \cap footprint.coords), den |-> SumArea(inCrs)]

C7_AtLeastTenth(plot_geom, footprint) ==
    LET f == C7_Fraction(plot_geom, footprint)
    IN f.den # 0 /\ 10 * f.num >= f.den

\* the plots of the catalog that match a footprint
C7_Matched(footprint) ==
    { i \in 1..Len(all_plots) :
        C6_InFootprintCRS(all_plots[i].v, footprint) \cap footprint.coords # {} }

\* C7: a matched plot is sent to the clipper for a file exactly when its
\* overlap fraction, 0.0 when the computation raises, is at least 0.10; a
\* candidate below that is skipped without ending the run, and a run that
\* returns has gone through every matched plot of every file.
C7_OverlapFilter ==
    /\ [][ (pc = "plots" /\ processed_plots' = processed_plots + 1) =>
             LET request == ClipRequest(CurrentFile.k, CurrentPlot.k)
             IN IF C7_AtLeastTenth(CurrentPlot.v, CurrentFile.v.bounds)
                THEN clip_calls' = Append(clip_calls, request)
                ELSE clip_calls' = clip_calls /\ pc' = "plots"
         ]_vars
    /\ [](pc = "returned" =>
            /\ result.total_plots_processed = processed_plots
            /\ \A f \in 1..Len(files_to_process) :
                 \A i \in C7_Matched(files_to_process[f].v.bounds) :
                    (\E c \in 1..Len(clip_calls) :
                        clip_calls[c] = ClipRequest(files_to_process[f].k, all_plots[i].k))
                    <=> C7_AtLeastTenth(all_plots[i].v, files_to_process[f].v.bounds))

\* C7 witness: a run that returned after clipping a plot whose overlap is
\* exactly one tenth and skipping a matched plot of no area.
C7_Witness ==
    /\ pc = "returned"
    /\ \E f \in 1..Len(files_to_process) :
         \E i \in C7_Matched(files_to_process[f].v.bounds) :
            /\ C7_Fraction(all_plots[i].v, files_to_process[f].v.bounds).den =
                 10 * C7_Fraction(all_plots[i].v, files_to_process[f].v.bounds).num
            /\ C7_Fraction(all_plots[i].v, files_to_process[f].v.bounds).num > 0
            /\ \E c \in 1..Len(clip_calls) :
                 clip_calls[c] = ClipRequest(files_to_process[f].k, all_plots[i].k)
    /\ \E f \in 1..Len(files_to_process) :
         \E j \in C7_Matched(files_to_process[f].v.bounds) :
            /\ C7_Fraction(all_plots[j].v, files_to_process[f].v.bounds).den = 0
            /\ \A c \in 1..Len(clip_calls) :
                 clip_calls[c] # ClipRequest(files_to_process[f].k, all_plots[j].k)

\* a name of the form urn:ogc:def:crs:<AUTHORITY>:<version>:<CODE> with
\* trailing colons allowed, AUTHORITY "epsg" in any case, CODE a known
\* EPSG number
C8_EpsgUrn(name, code) ==
    \E a \in Authorities, v \in Versions, t \in Trailers :
       /\ Lower(a) = <<"e", "p", "s", "g">>
       /\ name = ogc_crs_prefix \o a \o <<Colon>> \o v \o <<Colon>> \o code \o t

\* C8: a clause of type "name" whose name is such a URN, with any version
\* field, resolves to EPSG:CODE.
C8_VersionIgnored ==
    (crs_result # NotCalled /\ crs.hasType /\ crs.type = TypeName /\ crs.hasName) =>
      \A code \in Codes :
        (IntParses(code) /\ DecimalValue(code) \in KnownEPSG /\ C8_EpsgUrn(crs.name, code))
        => crs_result = SpatialReference(DecimalValue(code))

\* C9: a clause of type "name" whose name does not start with
\* urn:ogc:def:crs: fails with RuntimeError: no spatial reference is
\* returned and no other exception leaves the call.
C9_BadPrefixRaisesRuntimeError ==
    ( /\ crs_result # NotCalled
      /\ crs.hasType /\ crs.type = TypeName /\ crs.hasProperties /\ crs.hasName
      /\ ~StartsWith(crs.name, ogc_crs_prefix) )
    => crs_result = Raised("RuntimeError")

\* every file record of a list, under 'file' and under 'files'
TotalFileRecords(md) ==
    LET count[n \in 0..Len(md)] ==
          IF n = 0 THEN 0
          ELSE count[n - 1] + Len(md[n].file) + Len(md[n].files)
    IN count[Len(md)]

\* C10: merging the entry just merged a second time leaves the number of
\* file records of the list and the number of its entries as the first
\* merge left them.
C10_SecondMergeChangesNothing ==
    [][ merge_op' = "again" =>
          /\ TotalFileRecords(dest_md') = TotalFileRecords(dest_md)
          /\ Len(dest_md') = Len(dest_md)
      ]_vars

\* C10 witness: an entry with 'files' records was merged a second time into
\* a list that held another entry of its name before.
C10_Witness ==
    /\ merge_op = "again"
    /\ new_md.hasFiles
    /\ new_md.files # <<>>
    /\ Len(dest_md) = 2
    /\ \E i \in 1..Len(dest_md) :
         /\ dest_md[i].name = new_md.name
         /\ dest_md[i] # new_md
         /\ PathsOf(new_md.files) \subseteq PathsOf(dest_md[i].files)


-----------------------------------------------------------------------------
(* C11: the input file scan.                                               *)

\* a path the scan can describe: it exists and ends in .tif or .las
C11_Usable(path) ==
    /\ path \in disk
    /\ EndsWith(path, ExtTif) \/ EndsWith(path, ExtLas)

\* the descriptors hold one basename each, each is filed under the basename
\* of its path, and none describes a missing path or a path of another kind
C11_OnePerBasename ==
    /\ \A i, j \in 1..Len(files_to_process) :
           files_to_process[i].k = files_to_process[j].k => i = j
    /\ \A i \in 1..Len(files_to_process) :
           /\ files_to_process[i].k = Basename(files_to_process[i].v.path)
           /\ C11_Usable(files_to_process[i].v.path)

\* C11 as stated: after any number of paths of any list, there is at most
\* one descriptor per basename, no descriptor for a missing path or a path
\* ending in neither .tif nor .las, and the descriptor kept for a basename is
\* the one of the first path of the list that has that basename.
C11_FirstPathWins ==
    pc = "scan" =>
        /\ C11_OnePerBasename
        /\ \A i \in 1..Len(files_to_process) :
               \E n \in 1..file_pos :
                   /\ files_to_process[i].v.path = file_list[n]
                   /\ \A m \in 1..(n - 1) :
                          Basename(file_list[m]) # files_to_process[i].k

\* C11 amended: the descriptor kept for a basename is the one of the first
\* path of the list with that basename that exists and ends in .tif or .las;
\* a missing path does not keep a later path of its basename out.
C11_FirstUsablePathWins ==
    pc = "scan" =>
        /\ C11_OnePerBasename
        /\ \A i \in 1..Len(files_to_process) :
               \E n \in 1..file_pos :
                   /\ files_to_process[i].v.path = file_list[n]
                   /\ \A m \in 1..(n - 1) :
                          Basename(file_list[m]) = files_to_process[i].k
                              => ~C11_Usable(file_list[m])

\* a finished scan of a list where a missing path is followed by two
\* different existing images of its basename, the first of which is kept
C11_Witness ==
    /\ pc = "scan"
    /\ file_pos = Len(file_list)
    /\ \E a, b, c \in 1..Len(file_list) :
           /\ a < b /\ b < c
           /\ Basename(file_list[a]) = Basename(file_list[b])
           /\ Basename(file_list[b]) = Basename(file_list[c])
           /\ file_list[a] \notin disk
           /\ C11_Usable(file_list[b])
           /\ C11_Usable(file_list[c])
           /\ file_list[b] # file_list[c]
           /\ \E i \in 1..Len(files_to_process) :
                  files_to_process[i].v.path = file_list[b]


-----------------------------------------------------------------------------
(* C12: what a failing run hands back.                                     *)

\* some plot was clipped, its output written and its entry merged
C12_SomeSuccess ==
    \E i \in 1..Len(container_md) : container_md[i].file # <<>>

\* C12 as stated: when perform_process has ended, by returning or by a step
\* raising, after some plot was clipped and merged, the caller holds a result
\* whose container is the metadata accumulated so far.
C12_PartialResultsReturned ==
    (pc \in {"returned", "raised"} /\ C12_SomeSuccess)
        => (result.code = 0 /\ result.container = container_md)

====
